---- MODULE Spec2Model ----
(***************************************************************************)
(* A model of TdlpackIO.open (src/TdlpackIO.py): the index built over a    *)
(* TDLPACK sequential file (Fortran unformatted frames) when it is opened  *)
(* for reading, and the record-level access operations on the handle:      *)
(* seek, read, record, fetch, tell and __next__.                           *)
(*                                                                         *)
(* The file is a sequence of 4-byte big-endian words; positions are byte   *)
(* positions.  Every length marker the model draws is a multiple of 4, so  *)
(* the stream position stays word aligned.  The interpreter is Python 2:   *)
(* src/pytdlpack.py imports __builtin__ unconditionally (line 6), so the   *)
(* module TdlpackIO imports loads under Python 2 only; there None sorts    *)
(* before every number.  The host is little-endian (the scalar temp[2] is  *)
(* handed to struct.unpack in native byte order).                          *)
(***************************************************************************)
EXTENDS Integers, Sequences, FiniteSets, TLC

\* ------------------------------------------------------------------ bounds

\* Longest file drawn from the catalogue, in frames.
MaxFrames == 2

\* Most words cut from the end of a file (a truncated file).
MaxCut == 2

\* ------------------------------------------------------------- Python values

\* Python's None; a number v is the one-element tuple <<v>>.
None == <<>>

Some(v) == <<v>>

Min(a, b) == IF a <= b THEN a ELSE b

\* Python 2 ordering of None and numbers: None sorts before every number.
Le(x, y) == x = None \/ (y # None /\ x[1] <= y[1])

RECURSIVE SortedTuple(_)
\* tuple(sorted(set(column))): the distinct values of a column, ascending.
SortedTuple(S) ==
    IF S = {} THEN <<>>
    ELSE LET m == CHOOSE x \in S : \A y \in S : Le(x, y)
         IN <<m>> \o SortedTuple(S \ {m})

Range(s) == {s[i] : i \in 1..Len(s)}

\* ------------------------------------------------------- program constants

\* struct.unpack('>i', self._fh.read(4)): a length marker is 4 bytes.
MarkerBytes == 4

\* The classification window: the first 44 bytes of a frame's payload.
HeaderWindow == 44

\* A trailer record: temp[1] == 24 and temp[6] == 9999.
TrailerSize == 24

TrailerMark == 9999

\* The identifier given to a station call letter record.
StationId1 == 400001000

\* The leading length marker alone skipped.
OffsetSkipMarkerOnly == MarkerBytes

\* offset = pos + 12: 4-byte header + 4-byte trash + 4-byte ioctet.
OffsetSkip == 12

\* ------------------------------------------------------------ word decoding

\* Byte k (0 = least significant) of a 32-bit two's complement word.
Byte(w, k) == (w \div (256 ^ k)) % 256

\* struct.unpack('>4s', temp[2])[0]: the four bytes of the scalar as the
\* little-endian host stores it, least significant byte first.
Tag(w) == <<Byte(w, 0), Byte(w, 1), Byte(w, 2), Byte(w, 3)>>

\* .decode(): the default (ascii) codec refuses a byte above 127.
Decodable(w) == \A k \in 0..3 : Byte(w, k) < 128

\* The literal 'PLDT' as character codes.
PLDT == <<80, 76, 68, 84>>

\* int(str(temp[9])[-3:]): the last three characters of the decimal text.
LeadOf(w) ==
    IF w >= 0 THEN w % 1000
    ELSE IF w > -100 THEN w
    ELSE (0 - w) % 1000

\* ndarray.byteswap() of one 32-bit word.
ByteSwap(w) ==
    LET b0 == Byte(w, 0)
        hi == IF b0 >= 128 THEN b0 - 256 ELSE b0
    IN hi * 16777216 + Byte(w, 1) * 65536 + Byte(w, 2) * 256 + Byte(w, 3)

\* ------------------------------------------------------------- the byte stream

FileLen(f) == 4 * Len(f)

\* Bytes left at position pos (a seek past the end is allowed and leaves none).
Avail(f, pos) == IF pos >= FileLen(f) THEN 0 ELSE FileLen(f) - pos

\* The number of bytes self._fh.read(n) returns at pos; a negative n reads
\* to the end of the file.
ReadCount(f, pos, n) == IF n < 0 THEN Avail(f, pos) ELSE Min(n, Avail(f, pos))

\* struct.unpack('>i', ...)[0] of the four bytes at pos.
ReadWord(f, pos) == f[(pos \div 4) + 1]

\* np.frombuffer(self._fh.read(n), dtype='>i4') of n bytes read at pos.
Words(f, pos, n) == [i \in 1..(n \div 4) |-> f[(pos \div 4) + i]]

\* ------------------------------------------------------------------ input files

\* A frame on disk: the leading length marker L, the payload of L bytes
\* (L / 4 words: word 0 is the Fortran "trash" word, word 1 the record size
\* ioctet, word 2 onward the TDLPACK record), and the trailing marker T.
Frame(L, payload, T) == [L |-> L, payload |-> payload, T |-> T]

\* A station call letter record: one station, 'KBWI' padded with blanks.
StationFrame == Frame(16, <<0, 8, 1262638921, 538976288>>, 16)

\* A trailer record: ioctet 24 and 9999 in word 6.
TrailerFrame == Frame(32, <<0, 24, 0, 0, 0, 0, 9999, 0>>, 32)

\* A TDLPACK data record ('TDLP' on disk): date 2020010100, lead 6.
DataFrameA ==
    Frame(48, <<0, 40, 1413762128, 0, 0, 0,
                2020010100, 222030008, 0, 1234006, 0, 77>>, 48)

\* A TDLPACK data record of an earlier date, lead 12, the same id1 and id2.
DataFrameB ==
    Frame(48, <<0, 40, 1413762128, 0, 0, 0,
                2019123100, 222030008, 0, 2012, 5, 78>>, 48)

\* A station record whose trailing marker differs from its leading marker.
BadFrame == Frame(16, <<0, 8, 1262638921, 538976288>>, 20)

\* A frame of 8 bytes: the trash word and an ioctet of 0 (no station).
ShortFrame == Frame(8, <<0, 0>>, 8)

Catalogue ==
    {StationFrame, TrailerFrame, DataFrameA, DataFrameB, BadFrame, ShortFrame}

\* A frame of 24 bytes, the length spec.md gives a trailer: six words (word 1
\* is 24), so it has no word 6.
SpecTrailerFrame == Frame(24, <<0, 24, 0, 0, 0, 0>>, 24)

\* The three-frame file of spec.md section 8: a station record, the data
\* record with date 2020010100 and word 9 = 1234006, and a trailer.
ScenarioFile == <<StationFrame, DataFrameA, TrailerFrame>>

\* The same file with the trailer as a frame of 24 bytes.
ScenarioLiteral == <<StationFrame, DataFrameA, SpecTrailerFrame>>

\* The files drawn: every sequence of at most MaxFrames catalogue frames, and
\* the two scenario files.
FrameSeqs ==
    UNION {[1..n -> Catalogue] : n \in 1..MaxFrames}
      \cup {ScenarioFile, ScenarioLiteral}

RECURSIVE Flatten(_)
\* The words of a file holding the frames fs, in file order.
Flatten(fs) ==
    IF fs = <<>> THEN <<>>
    ELSE <<Head(fs).L>> \o Head(fs).payload \o <<Head(fs).T>> \o Flatten(Tail(fs))

\* The file with its last cut words missing.
Truncate(f, cut) == SubSeq(f, 1, Len(f) - cut)

\* ------------------------------------------------------------------- the state

VARIABLES
    frames,        \* the frames the file was written from (not read by the code)
    file,          \* the words on disk
    fhpos,         \* self._fh: the stream position, in bytes
    phase,         \* "indexing" (inside __init__), "ready", or "raised"
    exc,           \* the exception the last call raised, or "none"
    index,         \* self._index: one list per key
    records,       \* self.records
    recordnumber,  \* self.recordnumber
    hasindex,      \* self._hasindex
    dates,         \* self.dates
    leadtimes,     \* self.leadtimes
    last_station,  \* _last_station_id_record, the local of _get_index
    call,          \* the last call made on the handle, with its arguments
    ret,           \* what that call returned: a list of records
    warned         \* whether that call issued warnings.warn

vars == <<frames, file, fhpos, phase, exc, index, records, recordnumber,
          hasindex, dates, leadtimes, last_station, call, ret, warned>>

\* self._index after _get_index has initialised its keys.
EmptyIndex ==
    [offset |-> <<>>, size |-> <<>>, type |-> <<>>, date |-> <<>>,
     lead |-> <<>>, id1 |-> <<>>, id2 |-> <<>>, id3 |-> <<>>, id4 |-> <<>>,
     linked_station_id_record |-> <<>>]

\* self._index[key].append(v)
App(ix, key, v) == [ix EXCEPT ![key] = Append(@, v)]

\* ------------------------------------------------------------ index building

\* temp[k], k counted from 0 as in the source.
At(temp, k) == temp[k + 1]

\* The size taken as the number of bytes read into the window.
RecordSizeOfWindow(temp) == 4 * Len(temp)

\* self._index['size'].append(temp[1]), lines 121, 133 and 144: word 1 of
\* the payload, the record size ioctet.
RecordSize(temp) == At(temp, 1)

\* The appends of the 'PLDT' branch, in source order; temp[k] beyond the
\* words read raises IndexError and leaves the earlier appends in place.
AppendData(ix, temp, last) ==
    LET a1 == App(App(ix, "size", RecordSize(temp)), "type", "data")
        a2 == App(a1, "date", Some(At(temp, 6)))
        a3 == App(App(App(App(a2, "lead", Some(LeadOf(At(temp, 9)))),
                  "id1", Some(At(temp, 7))), "id2", Some(At(temp, 8))),
                  "id3", Some(At(temp, 9)))
        a4 == App(App(a3, "id4", Some(At(temp, 10))),
                  "linked_station_id_record", last)
    IN IF Len(temp) < 7 THEN [index |-> a1, err |-> "IndexError"]
       ELSE IF Len(temp) < 10 THEN [index |-> a2, err |-> "IndexError"]
       ELSE IF Len(temp) < 11 THEN [index |-> a3, err |-> "IndexError"]
       ELSE [index |-> a4, err |-> "none"]

\* The appends of the trailer branch.
AppendTrailer(ix, temp, last) ==
    App(App(App(App(App(App(App(App(App(ix,
        "size", RecordSize(temp)), "type", "trailer"), "date", None), "lead", None),
        "id1", None), "id2", None), "id3", None), "id4", None),
        "linked_station_id_record", last)

\* The appends of the station branch.
AppendStation(ix, temp, last) ==
    App(App(App(App(App(App(App(App(App(ix,
        "size", RecordSize(temp)), "type", "station"), "date", None), "lead", None),
        "id1", Some(StationId1)), "id2", Some(0)), "id3", Some(0)),
        "id4", Some(0)), "linked_station_id_record", last)

\* _header == 'PLDT'
IsData(temp) == Tag(At(temp, 2)) = PLDT

\* Lines 115-152: the record type from the words read, and the appends.
\* temp[2] is read first (IndexError below three words; an undecodable tag
\* raises UnicodeDecodeError); temp[6] of the trailer test is read only when
\* temp[1] == 24.
Classify(ix, temp, last) ==
    IF Len(temp) < 3 THEN [index |-> ix, err |-> "IndexError"]
    ELSE IF ~Decodable(At(temp, 2)) THEN [index |-> ix, err |-> "UnicodeDecodeError"]
    ELSE IF IsData(temp) THEN AppendData(ix, temp, last)
    ELSE IF At(temp, 1) = TrailerSize
         THEN IF Len(temp) < 7 THEN [index |-> ix, err |-> "IndexError"]
              ELSE IF At(temp, 6) = TrailerMark
                   THEN [index |-> AppendTrailer(ix, temp, last), err |-> "none"]
                   ELSE [index |-> AppendStation(ix, temp, last), err |-> "none"]
         ELSE [index |-> AppendStation(ix, temp, last), err |-> "none"]

\* The marker test left out: no frame is ever found bad.
BadRecordNever(fortran_header, fortran_trailer) == FALSE

\* if fortran_header != fortran_trailer: raise IOError('Bad Fortran record.')
BadRecord(fortran_header, fortran_trailer) == fortran_header # fortran_trailer

\* except(struct.error): seek(0), break; then lines 178-180.
EndScan(b) ==
    [b EXCEPT !.fhpos = 0, !.phase = "ready", !.hasindex = TRUE,
              !.dates = SortedTuple(Range(b.index.date)),
              !.leadtimes = SortedTuple(Range(b.index.lead))]

\* An exception that leaves _get_index and __init__.
Raise(b, pos, e) == [b EXCEPT !.fhpos = pos, !.phase = "raised", !.exc = e]

\* Every entry given the same offset: the frame's position is left out.
PayloadOffsetFixed(pos) == OffsetSkip

\* self._index['offset'].append(pos+12), line 168: pos is the position of the
\* frame's leading length marker.
PayloadOffset(pos) == pos + OffsetSkip

\* The running value taken from every entry, whatever its type.
LastStationAlways(type, recs, last) == recs

\* Lines 171-172: _last_station_id_record after an entry of the given type
\* has been appended and counted as record recs.
LastStation(type, recs, last) == IF type = "station" THEN recs ELSE last

\* One pass of the while loop of _get_index over the file f, from the build
\* state b (fhpos, index, records, last_station, phase, exc, hasindex, dates,
\* leadtimes).
GetIndexStep(f, b) ==
    LET pos == b.fhpos
    IN IF Avail(f, pos) < MarkerBytes THEN EndScan(b)
       ELSE
       LET fortran_header == ReadWord(f, pos)
           bytes_to_read == IF fortran_header >= HeaderWindow THEN HeaderWindow
                            ELSE fortran_header
           got == ReadCount(f, pos + MarkerBytes, bytes_to_read)
           temp == Words(f, pos + MarkerBytes, got)
           p1 == pos + MarkerBytes + got
           c == Classify(b.index, temp, b.last_station)
           p2 == p1 + (fortran_header - bytes_to_read)
           counted == [b EXCEPT !.index = c.index, !.records = b.records + 1]
       IN IF c.err # "none" THEN Raise([b EXCEPT !.index = c.index], p1, c.err)
          ELSE IF Avail(f, p2) < MarkerBytes THEN EndScan(counted)
          ELSE IF BadRecord(fortran_header, ReadWord(f, p2))
               THEN Raise(counted, p2 + MarkerBytes, "IOError")
          ELSE [counted EXCEPT
                  !.fhpos = p2 + MarkerBytes,
                  !.index = App(c.index, "offset", PayloadOffset(pos)),
                  !.last_station =
                      LastStation(c.index.type[Len(c.index.type)],
                                  b.records + 1, b.last_station)]

\* The state __init__ sets before it calls _get_index (lines 52-56, 90-100).
NewBuild ==
    [fhpos |-> 0, index |-> EmptyIndex, records |-> 0, last_station |-> 0,
     phase |-> "indexing", exc |-> "none", hasindex |-> FALSE,
     dates |-> <<>>, leadtimes |-> <<>>]

RECURSIVE RunIndex(_, _)
\* _get_index run to its end: the build state when __init__ returns or raises.
RunIndex(f, b) == IF b.phase # "indexing" THEN b ELSE RunIndex(f, GetIndexStep(f, b))

\* The build state held by the variables.
Build ==
    [fhpos |-> fhpos, index |-> index, records |-> records,
     last_station |-> last_station, phase |-> phase, exc |-> exc,
     hasindex |-> hasindex, dates |-> dates, leadtimes |-> leadtimes]

Init ==
    /\ frames \in FrameSeqs
    /\ \E cut \in 0..MaxCut :
          /\ cut <= Len(Flatten(frames))
          /\ file = Truncate(Flatten(frames), cut)
    /\ fhpos = 0
    /\ phase = "indexing"
    /\ exc = "none"
    /\ index = EmptyIndex
    /\ records = 0
    /\ recordnumber = 0
    /\ hasindex = FALSE
    /\ dates = <<>>
    /\ leadtimes = <<>>
    /\ last_station = 0
    /\ call = [op |-> "open", arg |-> None]
    /\ ret = <<>>
    /\ warned = FALSE

\* One pass of the indexing loop, inside open(filename).
IndexStep ==
    /\ phase = "indexing"
    /\ LET b == GetIndexStep(file, Build)
       IN /\ fhpos' = b.fhpos
          /\ index' = b.index
          /\ records' = b.records
          /\ last_station' = b.last_station
          /\ phase' = b.phase
          /\ exc' = b.exc
          /\ hasindex' = b.hasindex
          /\ dates' = b.dates
          /\ leadtimes' = b.leadtimes
    /\ UNCHANGED <<frames, file, recordnumber, call, ret, warned>>

\* ---------------------------------------------------------- record access

\* A call's outcome: the stream position and cursor it leaves, the exception
\* it raised ("none" when it returned), the records it returned and whether
\* it warned.
Outcome(pos, rn, e, recs, w) ==
    [fhpos |-> pos, recordnumber |-> rn, exc |-> e, ret |-> recs, warned |-> w]

\* seek with no list bound on self._index['offset']: a record number past the
\* last offset still moves the cursor.
SeekOpUnchecked(ix, hasidx, h, offset) ==
    IF ~hasidx \/ offset < 0
    THEN [fhpos |-> h.fhpos, recordnumber |-> h.recordnumber, exc |-> "none",
          ret |-> <<>>, warned |-> FALSE]
    ELSE [fhpos |-> IF offset >= 1 /\ offset <= Len(ix.offset)
                    THEN ix.offset[offset] ELSE h.fhpos,
          recordnumber |-> IF offset = 0 THEN 0 ELSE offset - 1,
          exc |-> "none", ret |-> <<>>, warned |-> FALSE]

\* seek(offset), lines 238-249, from the handle state h (fhpos, recordnumber):
\* a list index past the end of self._index['offset'] raises IndexError before
\* anything is assigned.
SeekOp(ix, hasidx, h, offset) ==
    IF ~hasidx THEN Outcome(h.fhpos, h.recordnumber, "none", <<>>, FALSE)
    ELSE IF offset = 0
         THEN IF Len(ix.offset) = 0
              THEN Outcome(h.fhpos, h.recordnumber, "IndexError", <<>>, FALSE)
              ELSE Outcome(ix.offset[1], offset, "none", <<>>, FALSE)
    ELSE IF offset > 0
         THEN IF offset > Len(ix.offset)
              THEN Outcome(h.fhpos, h.recordnumber, "IndexError", <<>>, FALSE)
              ELSE Outcome(ix.offset[offset], offset - 1, "none", <<>>, FALSE)
    ELSE Outcome(h.fhpos, h.recordnumber, "none", <<>>, FALSE)

\* The object read() builds for record n from the got bytes read at pos
\* (lines 202-217): its class by the entry's type, ioctet, ipack (byte swapped
\* for a station record) and, for a data record, reference_date.  rec and
\* offset note which index entry was read and where from.
RecordObject(f, ix, n, pos, got) ==
    LET ipack == Words(f, pos, got)
    IN [rec |-> n, offset |-> pos, kind |-> ix.type[n], ioctet |-> ix.size[n],
        ipack |-> IF ix.type[n] = "station"
                  THEN [i \in 1..Len(ipack) |-> ByteSwap(ipack[i])]
                  ELSE ipack,
        reference_date |-> IF ix.type[n] = "data" THEN ix.date[n] ELSE None]

RECURSIVE ReadList(_, _, _, _, _, _, _)
\* The loop of read() over the record numbers n..last (lines 200-219); an
\* exception leaves the loop with the cursor and stream position reached.
ReadList(f, ix, hasidx, h, n, last, recs) ==
    IF n > last THEN Outcome(h.fhpos, h.recordnumber, "none", recs, FALSE)
    ELSE LET s == SeekOp(ix, hasidx, h, n)
         IN IF s.exc # "none" THEN s
            ELSE IF n > Len(ix.size)
                 THEN Outcome(s.fhpos, s.recordnumber, "IndexError", <<>>, FALSE)
            ELSE LET got == ReadCount(f, s.fhpos, ix.size[n])
                 IN IF got % 4 # 0
                    THEN Outcome(s.fhpos + got, s.recordnumber, "ValueError",
                                 <<>>, FALSE)
                    ELSE ReadList(f, ix, hasidx,
                                  [fhpos |-> s.fhpos + got, recordnumber |-> n],
                                  n + 1, last,
                                  Append(recs, RecordObject(f, ix, n, s.fhpos, got)))

\* read(num), lines 188-219: num == 0 returns [] at once; a negative num
\* leaves reclist unassigned (UnboundLocalError at the for statement).
ReadOp(f, ix, hasidx, h, num) ==
    IF num = 0 THEN Outcome(h.fhpos, h.recordnumber, "none", <<>>, FALSE)
    ELSE IF num >= 1
         THEN ReadList(f, ix, hasidx, h, h.recordnumber + 1,
                       h.recordnumber + num, <<>>)
    ELSE Outcome(h.fhpos, h.recordnumber, "UnboundLocalError", <<>>, FALSE)

\* if rec <= 0 (line 228)
TooLow(rec) == rec <= 0

\* The upper test off by one: records + 1 passes as a record number.
TooHighOffByOne(rec, recs) == rec > recs + 1

\* elif rec > self.records (line 231)
TooHigh(rec, recs) == rec > recs

\* record(rec), lines 221-236: None (here the empty list) with a warning for
\* a record number out of range, else seek(rec) and read(1)[0].
RecordOp(f, ix, recs, hasidx, h, rec) ==
    IF TooLow(rec) \/ TooHigh(rec, recs)
    THEN Outcome(h.fhpos, h.recordnumber, "none", <<>>, TRUE)
    ELSE LET s == SeekOp(ix, hasidx, h, rec)
         IN IF s.exc # "none" THEN s
            ELSE ReadOp(f, ix, hasidx, s, 1)

\* ------------------------------------------------------------------- fetch

\* np.arange(n): the positions 0 .. n-1, ascending.
Arange(n) == [i \in 1..n |-> i - 1]

\* np.where(np.array(col) == v)[0]: the positions (from 0) whose entry is v.
Where(col, v) == SelectSeq(Arange(Len(col)), LAMBDA p : col[p + 1] = v)

\* A fetch criterion set: date and lead are None or a number, id is None or
\* four slots, each a number or the wildcard -1.
Query(date, id, lead) == [date |-> date, id |-> id, lead |-> lead]

\* A wildcard slot skipped as "no constraint": it contributes no candidates.
SlotMatchesSkipWildcard(col, recs, v) ==
    IF v = -1 THEN <<>> ELSE Where(col, Some(v))

\* The candidate list one identifier slot contributes (lines 279-297).
SlotMatches(col, recs, v) == IF v = -1 THEN Arange(recs) ELSE Where(col, Some(v))

\* match_count += 4 (line 276)
IdMatchCount == 4

\* The four candidate lists of an id criterion, concatenated (lines 277-302).
IdMatches(ix, recs, id) ==
    SlotMatches(ix.id1, recs, id[1]) \o SlotMatches(ix.id2, recs, id[2])
      \o SlotMatches(ix.id3, recs, id[3]) \o SlotMatches(ix.id4, recs, id[4])

\* idx before line 315: the candidate lists of the criteria given, catted
\* together in the order date, id, lead.
Candidates(ix, recs, q) ==
    (IF q.date # None THEN Where(ix.date, q.date) ELSE <<>>)
      \o (IF q.id # None THEN IdMatches(ix, recs, q.id) ELSE <<>>)
      \o (IF q.lead # None THEN Where(ix.lead, q.lead) ELSE <<>>)

\* match_count with an id criterion counted as 3 lists instead of 4.
MatchCountIdThree(q) ==
    (IF q.date # None THEN 1 ELSE 0) + (IF q.id # None THEN 3 ELSE 0)
      + (IF q.lead # None THEN 1 ELSE 0)

\* match_count before line 315.
MatchCount(q) ==
    (IF q.date # None THEN 1 ELSE 0) + (IF q.id # None THEN IdMatchCount ELSE 0)
      + (IF q.lead # None THEN 1 ELSE 0)

\* How often position p occurs in idx.
Occurrences(idx, p) == Cardinality({i \in 1..Len(idx) : idx[i] = p})

RECURSIVE Ascending(_)
\* The numbers of S, ascending (the vals of np.unique).
Ascending(S) ==
    IF S = {} THEN <<>>
    ELSE LET m == CHOOSE x \in S : \A y \in S : x <= y
         IN <<m>> \o Ascending(S \ {m})

\* Lines 315-316: the positions whose count in idx equals match_count.  With
\* no criterion idx is None, np.unique counts it once, and nothing matches.
FetchMatch(ix, recs, q) ==
    LET idx == Candidates(ix, recs, q)
    IN SelectSeq(Ascending(Range(idx)),
                 LAMBDA p : Occurrences(idx, p) = MatchCount(q))

\* An identifier slot below -1 takes neither branch of lines 279-297: its
\* candidate list is never assigned.
SlotUnbound(id) == \E k \in 1..4 : id[k] < -1

RECURSIVE FetchList(_, _, _, _, _, _, _, _)
\* Lines 320-321: record(i+1) for each matched position of idx from the
\* k-th on.  An out-of-range record() would append None and warn.
FetchList(f, ix, recs, hasidx, h, idx, k, got) ==
    IF k > Len(idx) THEN Outcome(h.fhpos, h.recordnumber, "none", got.ret, got.warned)
    ELSE LET r == RecordOp(f, ix, recs, hasidx, h, idx[k] + 1)
         IN IF r.exc # "none" THEN r
            ELSE FetchList(f, ix, recs, hasidx, r, idx, k + 1,
                           [ret |-> got.ret \o r.ret,
                            warned |-> got.warned \/ r.warned])

\* fetch(date, id, lead), lines 251-322.
FetchOp(f, ix, recs, hasidx, h, q) ==
    IF q.id # None /\ SlotUnbound(q.id)
    THEN Outcome(h.fhpos, h.recordnumber, "UnboundLocalError", <<>>, FALSE)
    ELSE FetchList(f, ix, recs, hasidx, h, FetchMatch(ix, recs, q), 1,
                   [ret |-> <<>>, warned |-> FALSE])

\* __next__, lines 76-82.
NextOp(f, ix, recs, hasidx, h) ==
    IF h.recordnumber < recs THEN ReadOp(f, ix, hasidx, h, 1)
    ELSE Outcome(h.fhpos, h.recordnumber, "StopIteration", <<>>, FALSE)

\* ----------------------------------------------------------------- the calls

\* The handle state held by the variables.
Handle == [fhpos |-> fhpos, recordnumber |-> recordnumber]

\* The arguments drawn for seek, read and record.
Numbers == -1..(MaxFrames + 2)

DateA == Some(DataFrameA.payload[7])

DateB == Some(DataFrameB.payload[7])

IdA == <<DataFrameA.payload[8], DataFrameA.payload[9],
         DataFrameA.payload[10], DataFrameA.payload[11]>>

Wildcards == <<-1, -1, -1, -1>>

\* The criteria drawn for fetch.
FetchQueries ==
    {Query(DateA, None, None),
     Query(DateA, Wildcards, None),
     Query(None, IdA, None),
     Query(DateB, <<IdA[1], -1, -1, -1>>, None),
     Query(None, None, Some(6)),
     Query(None, <<-1, -1, IdA[3], -1>>, Some(12)),
     Query(DateA, <<IdA[1], -1, -1, -1>>, Some(6)),
     Query(None, Wildcards, None),
     Query(None, <<StationId1, 0, 0, 0>>, None),
     Query(None, <<-2, -1, -1, -1>>, None),
     Query(None, None, None)}

\* A call that returns records leaves self.dates emptied.
ApplyClearingDates(c, o) ==
    /\ fhpos' = o.fhpos
    /\ recordnumber' = o.recordnumber
    /\ exc' = o.exc
    /\ ret' = o.ret
    /\ warned' = o.warned
    /\ call' = c
    /\ dates' = IF o.ret = <<>> THEN dates ELSE <<>>
    /\ UNCHANGED <<frames, file, phase, index, records, hasindex,
                   leadtimes, last_station>>

\* A call on the handle open() returned: its outcome becomes the state.
Apply(c, o) ==
    /\ fhpos' = o.fhpos
    /\ recordnumber' = o.recordnumber
    /\ exc' = o.exc
    /\ ret' = o.ret
    /\ warned' = o.warned
    /\ call' = c
    /\ UNCHANGED <<frames, file, phase, index, records, hasindex, dates,
                   leadtimes, last_station>>

Seek ==
    /\ phase = "ready"
    /\ \E n \in Numbers :
          Apply([op |-> "seek", arg |-> n], SeekOp(index, hasindex, Handle, n))

Read ==
    /\ phase = "ready"
    /\ \E n \in Numbers :
          Apply([op |-> "read", arg |-> n],
                ReadOp(file, index, hasindex, Handle, n))

Record ==
    /\ phase = "ready"
    /\ \E n \in Numbers :
          Apply([op |-> "record", arg |-> n],
                RecordOp(file, index, records, hasindex, Handle, n))

Fetch ==
    /\ phase = "ready"
    /\ \E q \in FetchQueries :
          Apply([op |-> "fetch", arg |-> q],
                FetchOp(file, index, records, hasindex, Handle, q))

\* tell(), lines 324-328: the cursor, returned as a one-element list here.
Tell ==
    /\ phase = "ready"
    /\ Apply([op |-> "tell", arg |-> None],
             Outcome(fhpos, recordnumber, "none", <<recordnumber>>, FALSE))

Iterate ==
    /\ phase = "ready"
    /\ Apply([op |-> "next", arg |-> None],
             NextOp(file, index, records, hasindex, Handle))

Next == IndexStep \/ Seek \/ Read \/ Record \/ Fetch \/ Tell \/ Iterate

Spec == Init /\ [][Next]_vars

\* ------------------------------------------------------ the files, as written

\* Every frame has matching length markers and the file ends exactly after
\* the last trailing marker.
WellFormed ==
    /\ file = Flatten(frames)
    /\ \A i \in 1..Len(frames) : frames[i].L = frames[i].T

\* The number of words from the start of the file to the end of frame i.
FrameEnd(i) == Len(Flatten(SubSeq(frames, 1, i)))

\* Some frame lying whole in the file has a trailing marker that differs from
\* its leading marker.
BadFramePresent ==
    \E i \in 1..Len(frames) :
        /\ frames[i].L # frames[i].T
        /\ FrameEnd(i) <= Len(file)

\* The exceptions _get_index lets through to the caller of open().
FatalErrors == {"IOError", "IndexError", "UnicodeDecodeError"}

\* ------------------------------------------------------------------ claims

\* C1: for any well-formed file, once open() has run its index build,
\* records equals the number of frames in the file (data, station and
\* trailer alike).  Stated of every well-formed file drawn.
C1_RecordsCountFrames ==
    (WellFormed /\ phase # "indexing") =>
        (phase = "ready" /\ records = Len(frames))

\* C2: a frame whose leading and trailing markers differ makes the index
\* build fail fatally: open() raises, the handle is never handed out, and no
\* record (not even one indexed before the bad frame) is read.
C2_BadFrameIsFatal ==
    BadFramePresent =>
        /\ phase # "ready"
        /\ phase = "raised" => exc \in FatalErrors
        /\ ret = <<>>
        /\ recordnumber = 0
        /\ call.op = "open"
        /\ ~ENABLED (Seek \/ Read \/ Record \/ Fetch \/ Tell \/ Iterate)

\* C2 witness: the build has raised IOError on a bad frame after indexing a
\* good one.
C2_Witness ==
    /\ BadFramePresent
    /\ phase = "raised"
    /\ exc = "IOError"
    /\ Len(index.offset) >= 1

\* seek(n) followed by read(1), from the handle state h.
SeekThenRead(h, n) ==
    LET s == SeekOp(index, hasindex, h, n)
    IN IF s.exc # "none" THEN s ELSE ReadOp(file, index, hasindex, s, 1)

\* C3: for every n in 1..records and from any cursor state, seek(n) followed
\* by read(1) returns the same record as record(n) (index entry n, read at
\* its offset with its size), and both leave tell() equal to n.
C3_SeekReadIsRecord ==
    phase = "ready" =>
        \A n \in 1..records :
            LET a == SeekThenRead(Handle, n)
                b == RecordOp(file, index, records, hasindex, Handle, n)
            IN /\ a.exc = "none" /\ b.exc = "none"
               /\ Len(a.ret) = 1 /\ a.ret = b.ret
               /\ a.ret[1].rec = n
               /\ a.ret[1].offset = index.offset[n]
               /\ a.ret[1].ioctet = index.size[n]
               /\ a.recordnumber = n /\ b.recordnumber = n

\* C4: record(n) with n <= 0 or n > records returns no record with a warning,
\* never raises, and leaves the cursor, the stream position and the index as
\* they were.
C4_OutOfRangeIsSoft ==
    [][(call'.op = "record" /\ (call'.arg <= 0 \/ call'.arg > records)) =>
          /\ ret' = <<>>
          /\ warned'
          /\ exc' = "none"
          /\ UNCHANGED <<recordnumber, fhpos, index, records, hasindex, dates,
                         leadtimes, phase, file>>]_vars

\* C4 witness: record(records + 1) has returned no record, with a warning, on
\* a handle whose cursor had moved.
C4_Witness ==
    /\ call.op = "record"
    /\ call.arg = records + 1
    /\ warned
    /\ ret = <<>>
    /\ exc = "none"
    /\ recordnumber >= 1

\* The reference dates, and the lead times, of the data entries of the index.
DataValues(col) ==
    {col[i] : i \in {j \in 1..Len(col) : index.type[j] = "data"}}

\* C5: after the index build, dates is exactly the reference dates of the
\* data entries, ascending and without duplicates, with no null entry from a
\* station or trailer entry; the same for leadtimes and the lead times.
C5_DistinctViews ==
    phase = "ready" =>
        /\ dates = SortedTuple(DataValues(index.date))
        /\ leadtimes = SortedTuple(DataValues(index.lead))
        /\ None \notin Range(dates)
        /\ None \notin Range(leadtimes)

\* fetch(q) from the handle state held by the variables.
FetchNow(q) == FetchOp(file, index, records, hasindex, Handle, q)

\* record(n) from the handle state held by the variables.
RecordNow(n) == RecordOp(file, index, records, hasindex, Handle, n)

\* C6: the three-frame file (station frame; 'PLDT' frame with word 6 =
\* 2020010100 and word 9 = 1234006; trailer frame) opens with records == 3,
\* kinds (station, data, trailer), dates == (2020010100,), leadtimes == (6,),
\* fetch(date=2020010100) returns exactly record 2, record(1) is the station
\* record and record(3) the trailer.  Frame 3 is the trailer as the format
\* writes it (record size 24 in word 1, 9999 in word 6, markers 32): a frame
\* whose marker is 24 holds six words and has no word 6.
C6_Scenario ==
    (frames = ScenarioFile /\ file = Flatten(frames) /\ phase # "indexing") =>
        /\ phase = "ready"
        /\ records = 3
        /\ index.type = <<"station", "data", "trailer">>
        /\ dates = <<DateA>>
        /\ leadtimes = <<Some(6)>>
        /\ LET got == FetchNow(Query(DateA, None, None))
           IN got.exc = "none" /\ Len(got.ret) = 1 /\ got.ret[1].rec = 2
        /\ LET r1 == RecordNow(1)
           IN r1.exc = "none" /\ Len(r1.ret) = 1 /\ r1.ret[1].kind = "station"
        /\ LET r3 == RecordNow(3)
           IN r3.exc = "none" /\ Len(r3.ret) = 1 /\ r3.ret[1].kind = "trailer"

\* The dates asked for: those of the data frames drawn, and one no frame has.
QueryDates == {DateA, DateB, Some(0)}

\* C7: for every index and every date d, fetch(date=d, id=(-1,-1,-1,-1))
\* returns the same records, in the same order, as fetch(date=d) (and leaves
\* the handle in the same state).
C7_WildcardIdIsNeutral ==
    phase = "ready" =>
        \A d \in QueryDates :
            FetchNow(Query(d, Wildcards, None)) = FetchNow(Query(d, None, None))

\* C7 witness: fetch(date, id all wildcards) has returned some, not all, of
\* the records of the file.
C7_Witness ==
    /\ call.op = "fetch"
    /\ call.arg = Query(DateA, Wildcards, None)
    /\ exc = "none"
    /\ Len(ret) >= 1
    /\ Len(ret) < records

\* The index column of identifier slot k.
IdColumn(ix, k) ==
    IF k = 1 THEN ix.id1 ELSE IF k = 2 THEN ix.id2
    ELSE IF k = 3 THEN ix.id3 ELSE ix.id4

\* Position p (from 0) satisfies every criterion given in q: the date, the
\* lead and each identifier slot that is not a wildcard.
Satisfies(ix, p, q) ==
    /\ q.date # None => ix.date[p + 1] = q.date
    /\ q.lead # None => ix.lead[p + 1] = q.lead
    /\ q.id # None =>
          \A k \in 1..4 : q.id[k] # -1 => IdColumn(ix, k)[p + 1] = Some(q.id[k])

\* The plain intersection of the criteria of q over the positions of the file.
Intersection(ix, recs, q) ==
    SelectSeq(Arange(recs), LAMBDA p : Satisfies(ix, p, q))

\* Every combination of: no date or a drawn date; no lead, 6 or 12; no id or
\* an id whose slots are wildcards or values the index columns can hold.
AllQueries ==
    {Query(d, i, l) :
        d \in {None} \cup QueryDates,
        i \in {None} \cup
              ({-1, IdA[1], StationId1} \X {-1, 0} \X {-1, IdA[3], 2012}
                 \X {-1, 0, 5}),
        l \in {None, Some(6), Some(12)}}

\* The files drawn, as words on disk.
DrawnFiles ==
    {Truncate(Flatten(fs), Min(cut, Len(Flatten(fs)))) :
        fs \in FrameSeqs, cut \in 0..MaxCut}

\* C8 as stated: there are a file (the one opened, or any other file drawn)
\* and criteria for which fetch matches a position that fails one of the
\* criteria given.
C8_PartialMatchExists ==
    \E f \in {file} \cup DrawnFiles :
        LET b == RunIndex(f, NewBuild)
        IN /\ b.phase = "ready"
           /\ \E q \in AllQueries :
                 \E p \in Range(FetchMatch(b.index, b.records, q)) :
                     ~Satisfies(b.index, p, q)

\* C8 (amended): the occurrence-count matching of fetch is the plain
\* intersection of the criteria: with at least one criterion given, the
\* positions matched are exactly those that satisfy the date, the lead and
\* every identifier slot that is not a wildcard, in ascending order; a fetch
\* that returns has read exactly those records.  Checked for every query of
\* AllQueries on each index as built, and for the queries the calls make.
C8_FetchIsIntersection ==
    phase = "ready" =>
        /\ \A q \in (IF call.op = "open" THEN AllQueries ELSE FetchQueries) :
              (MatchCount(q) > 0 /\ (q.id # None => ~SlotUnbound(q.id))) =>
                  FetchMatch(index, records, q) = Intersection(index, records, q)
        /\ (call.op = "fetch" /\ exc = "none" /\ MatchCount(call.arg) > 0) =>
              [i \in 1..Len(ret) |-> ret[i].rec - 1]
                  = Intersection(index, records, call.arg)

\* C8 witness: fetch(date of B, id = (id1 of A and B, -1, -1, -1)) has
\* returned one record while another position holds that id1 under another
\* date.
C8_Witness ==
    /\ call.op = "fetch"
    /\ call.arg = Query(DateB, <<IdA[1], -1, -1, -1>>, None)
    /\ exc = "none"
    /\ Len(ret) = 1
    /\ \E p \in 1..records :
          index.id1[p] = Some(IdA[1]) /\ index.date[p] # DateB

\* C9: fetch returns its matching records in strictly ascending record
\* number order, each matching position once, each read through
\* record(position + 1).  Stated of every fetch whose identifier slots are
\* wildcards or values.
C9_FetchAscending ==
    (call.op = "fetch" /\ (call.arg.id # None => ~SlotUnbound(call.arg.id))) =>
        /\ exc = "none"
        /\ [i \in 1..Len(ret) |-> ret[i].rec]
              = [i \in 1..Len(FetchMatch(index, records, call.arg)) |->
                    FetchMatch(index, records, call.arg)[i] + 1]
        /\ \A i \in 1..(Len(ret) - 1) : ret[i].rec < ret[i + 1].rec

\* C10: with the cursor at c and c + count <= records, read(count) for
\* count >= 1 returns count objects, records c+1 .. c+count in order, each of
\* the kind the index records, and leaves tell() == c + count; read(0)
\* returns an empty list and moves neither the cursor nor the stream.
C10_ReadAdvances ==
    phase = "ready" =>
        /\ \A count \in 1..(records - recordnumber) :
              LET o == ReadOp(file, index, hasindex, Handle, count)
              IN /\ o.exc = "none"
                 /\ Len(o.ret) = count
                 /\ \A i \in 1..Len(o.ret) :
                       /\ o.ret[i].rec = recordnumber + i
                       /\ o.ret[i].kind = index.type[recordnumber + i]
                 /\ o.recordnumber = recordnumber + count
        /\ LET z == ReadOp(file, index, hasindex, Handle, 0)
           IN /\ z.exc = "none" /\ z.ret = <<>>
              /\ z.recordnumber = recordnumber /\ z.fhpos = fhpos

RECURSIVE NextSteps(_, _)
\* The outcomes of k successive __next__ calls from the handle state h, with
\* no other call between them (lines 71-82: __iter__ returns the handle).
NextSteps(h, k) ==
    IF k = 0 THEN <<>>
    ELSE LET o == NextOp(file, index, records, hasindex, h)
         IN <<o>> \o NextSteps([fhpos |-> o.fhpos,
                                recordnumber |-> o.recordnumber], k - 1)

\* C11: iteration over a freshly opened handle (cursor 0, no other call in
\* between) is finite and forward-only: step i returns record i through
\* read(1) and leaves the cursor at i, for i = 1 .. records, and the step
\* after the last record signals StopIteration, no step raising an error.
C11_IterationInOrder ==
    (phase = "ready" /\ call.op = "open") =>
        LET run == NextSteps(Handle, records + 1)
        IN /\ \A i \in 1..records :
                 /\ run[i].exc = "none"
                 /\ Len(run[i].ret) = 1
                 /\ run[i].ret[1].rec = i
                 /\ run[i].recordnumber = i
           /\ run[records + 1].exc = "StopIteration"
           /\ run[records + 1].recordnumber = records

\* C12: once the index has been built, no call on the handle (seek, read,
\* record, fetch, tell, __next__), whether it returns or raises, changes an
\* index entry, records, dates or leadtimes.
C12_IndexImmutable ==
    [][phase = "ready" => UNCHANGED <<index, records, dates, leadtimes>>]_vars

\* C12 witness: a read that returned records and then ran past the last
\* one has raised, and the index, records and the views are those the build
\* left.
C12_Witness ==
    /\ call.op = "read"
    /\ exc = "IndexError"
    /\ recordnumber >= 1
    /\ LET b == RunIndex(file, NewBuild)
       IN /\ index = b.index /\ records = b.records
          /\ dates = b.dates /\ leadtimes = b.leadtimes

\* C13: in the index as built, and at every pass of the build, offset is
\* strictly increasing from each entry to the next.
C13_OffsetIncreasing ==
    \A i \in 1..(Len(index.offset) - 1) : index.offset[i] < index.offset[i + 1]

\* C13 witness: the build has completed with at least two offsets, the
\* frames behind them of different lengths.
C13_Witness ==
    /\ phase = "ready"
    /\ Len(index.offset) >= 2
    /\ frames[1].L # frames[2].L

\* C14: every frame is classified without failure, frames with a leading
\* marker L below 44 included: Data when word 2 is the tag 'PLDT'; otherwise
\* Trailer exactly when L equals 24 and word 6 equals 9999; otherwise Station
\* with identifier (400001000, 0, 0, 0); a word beyond the bytes of the frame
\* is not read (a test on it is false).  Stated of every file of whole frames
\* with matching markers.
C14_ClassifiesEveryFrame ==
    (WellFormed /\ phase # "indexing") =>
        /\ phase = "ready"
        /\ Len(index.type) = Len(frames)
        /\ \A i \in 1..Len(frames) :
              LET w == frames[i].payload
                  data == Len(w) >= 3 /\ Tag(w[3]) = PLDT
                  trailer == frames[i].L = 24 /\ Len(w) >= 7 /\ w[7] = 9999
              IN IF data THEN index.type[i] = "data"
                 ELSE IF trailer THEN index.type[i] = "trailer"
                 ELSE /\ index.type[i] = "station"
                      /\ <<index.id1[i], index.id2[i], index.id3[i], index.id4[i]>>
                            = <<Some(400001000), Some(0), Some(0), Some(0)>>

\* C15 as stated: the size of every index entry equals the leading length
\* marker L of its frame.
C15_SizeIsMarker ==
    \A i \in 1..Len(index.size) : index.size[i] = frames[i].L

\* C15 (amended): the size of every index entry is word 1 of its frame's
\* payload, the record size ioctet, and read asks for exactly that many bytes
\* at the entry's offset: every record object a call returns holds ioctet =
\* size and the size / 4 words found at offset, byte swapped for a station
\* record.
C15_SizeIsIoctet ==
    /\ \A i \in 1..Len(index.size) : index.size[i] = frames[i].payload[2]
    /\ \A k \in 1..Len(ret) :
          call.op \in {"read", "record", "fetch", "next"} =>
             LET n == ret[k].rec
                 w == Words(file, index.offset[n], index.size[n])
             IN /\ ret[k].ioctet = index.size[n]
                /\ ret[k].offset = index.offset[n]
                /\ Len(ret[k].ipack) = index.size[n] \div 4
                /\ ret[k].ipack = IF index.type[n] = "station"
                                  THEN [j \in 1..Len(w) |-> ByteSwap(w[j])]
                                  ELSE w

\* C15 witness: a read has returned a data record of 40 bytes from a frame
\* whose leading marker is 48.
C15_Witness ==
    /\ call.op = "read"
    /\ exc = "none"
    /\ Len(ret) >= 1
    /\ ret[1].kind = "data"
    /\ ret[1].ioctet = 40
    /\ frames[ret[1].rec].L = 48

\* C16 as stated: the offset of every index entry is the position of its
\* frame's leading length marker plus the 4 bytes of that marker.
C16_OffsetAfterMarker ==
    \A i \in 1..Len(index.offset) :
        index.offset[i] = 4 * FrameEnd(i - 1) + 4

\* C16 (amended): the offset of every index entry is the position of its
\* frame's leading length marker plus 12 (the marker, the filler word and the
\* record size word): the position of word 2 of the payload, where the
\* TDLPACK record begins, and every record a call returns was read from there.
C16_OffsetAfterIoctet ==
    /\ \A i \in 1..Len(index.offset) :
          /\ index.offset[i] = 4 * FrameEnd(i - 1) + 12
          /\ ReadWord(file, index.offset[i]) = frames[i].payload[3]
    /\ \A k \in 1..Len(ret) :
          call.op \in {"read", "record", "fetch", "next"} =>
             ret[k].offset = 4 * FrameEnd(ret[k].rec - 1) + 12

\* C16 witness: record(2) has returned the second record of a file, read at
\* an offset that lies 12 bytes past the end of the first frame.
C16_Witness ==
    /\ call.op = "record"
    /\ call.arg = 2
    /\ exc = "none"
    /\ Len(ret) = 1
    /\ ret[1].offset = 4 * FrameEnd(1) + 12
    /\ ret[1].offset > 12

\* C17: for every index entry of every kind, linked_station_id_record is the
\* record number of the most recent station entry appended before it, 0 when
\* none precedes it; so it is 0 or a record number not above the entry's own,
\* and a station entry is linked to the station before it, never to itself
\* (the running value is updated after the entry has been appended).
C17_LinkedStation ==
    /\ \A i \in 1..Len(index.linked_station_id_record) :
          LET prior == {j \in 1..(i - 1) : index.type[j] = "station"}
              link == index.linked_station_id_record[i]
          IN /\ link = IF prior = {} THEN 0
                       ELSE CHOOSE j \in prior : \A k \in prior : k <= j
             /\ link = 0 \/ link <= i
             /\ link # i
    /\ phase = "indexing" =>
          LET seen == {j \in 1..records : index.type[j] = "station"}
          IN last_station = IF seen = {} THEN 0
                            ELSE CHOOSE j \in seen : \A k \in seen : k <= j

\* C17 witness: a built index whose third entry is linked to station record
\* 1 across a second entry that is not a station, and whose first entry, a
\* station, is linked to 0.
C17_Witness ==
    /\ phase = "ready"
    /\ Len(index.linked_station_id_record) >= 3
    /\ index.type[1] = "station"
    /\ index.linked_station_id_record[1] = 0
    /\ index.type[2] # "station"
    /\ index.linked_station_id_record[3] = 1

\* The keys of self._index.
Columns == DOMAIN EmptyIndex

\* C18: whenever the index build returns without raising, for whole and for
\* truncated files alike, every index column has the same length and that
\* length is records, so every record number in 1..records has an offset for
\* seek to use.
C18_ColumnsAligned ==
    phase = "ready" =>
        /\ \A k \in Columns : Len(index[k]) = records
        /\ \A n \in 1..records :
              SeekOp(index, hasindex, Handle, n).exc = "none"

\* C19: on a handle open for reading, after any sequence of seek, read,
\* record, fetch and __next__ calls with any integer arguments, calls that
\* raise part-way included, the cursor tell() reports stays within
\* 0 .. records (it never passes the last record that has an offset).
C19_CursorInRange ==
    phase = "ready" =>
        /\ 0 <= recordnumber
        /\ recordnumber <= records
        /\ recordnumber <= Len(index.offset)
        /\ call.op = "tell" => ret = <<recordnumber>>

\* C19 witness: a read(count) that ran past the last record has raised with
\* the cursor left on the last record.
C19_Witness ==
    /\ phase = "ready"
    /\ call.op = "read"
    /\ call.arg > records
    /\ exc = "IndexError"
    /\ records >= 1
    /\ recordnumber = records

====
